---- MODULE Spec2Model ----
(***************************************************************************)
(* The marker pen of rnote-engine: Marker::handle_event (pens/marker.rs),  *)
(* the MarkerStroke it builds (strokes/markerstroke.rs) and the            *)
(* MarkerConfig it reads (pens/pensconfig/markerconfig.rs).                *)
(*                                                                         *)
(* Numbers.  Lengths and coordinates are fixed-point with one decimal      *)
(* digit (Fx(15) is 15.0), so that width * 0.5 is exact.  Colour channels  *)
(* and the strength are in hundredths (100 is 1.0).                        *)
(*                                                                         *)
(* The store, the document, the camera, the history and the path builder   *)
(* live in other crates of the repository; their operators are modelled    *)
(* from the specification and say so.                                      *)
(***************************************************************************)
EXTENDS Integers, Sequences, FiniteSets, TLC

VARIABLES
    state,          \* Marker.state: MarkerState (Idle | Drawing{path_builder, current_stroke_key})
    config,         \* engine_view.config.pens_config.marker_config
    store,          \* engine_view.store: the strokes, a stroke's key is its index
    render,         \* engine_view.store: per stroke, the images of its render component
    tasks,          \* engine_view.tasks_tx: per stroke, the render tasks in flight
    document,       \* engine_view.document.bounds()
    history,        \* engine_view.store: number of history checkpoints recorded
    autoexpands,    \* engine_view.document: number of resize_autoexpand calls
    changes,        \* number of changes made on the configuration page
    event,          \* the event of the handle_event call the last step made, if any
    builder_result, \* what path_builder.handle_event returned in that call, if called
    event_result,   \* the EventResult that call returned
    widget_flags,   \* the WidgetFlags that call returned
    trace           \* the calls into store and document that call made, in order

vars == <<state, config, store, render, tasks, document, history, autoexpands,
          changes, event, builder_result, event_result, widget_flags, trace>>

-----------------------------------------------------------------------------
(* Bounds of the model *)

MaxStrokes == 2   \* strokes in the store
MaxSegs == 2      \* segments in the store, over all strokes
MaxBuf == 1       \* elements a path builder buffers
MaxPending == 2   \* render tasks in flight, over all strokes
MaxChanges == 1   \* changes made on the configuration page
MaxPath == 3      \* segments of a path the methods of a stroke are called on

-----------------------------------------------------------------------------
(* Fixed-point numbers and boxes (p2d::bounding_volume::Aabb) *)

Fx(n) == n * 10

Pt(x, y) == <<Fx(x), Fx(y)>>

Min(a, b) == IF a <= b THEN a ELSE b
Max(a, b) == IF a >= b THEN a ELSE b

AabbNew(mins, maxs) == [mins |-> mins, maxs |-> maxs]

\* Aabb::loosened(margin)
Loosened(b, m) ==
    [mins |-> <<b.mins[1] - m, b.mins[2] - m>>,
     maxs |-> <<b.maxs[1] + m, b.maxs[2] + m>>]

\* Aabb::contains_local_point
ContainsPoint(b, p) ==
    /\ b.mins[1] <= p[1] /\ p[1] <= b.maxs[1]
    /\ b.mins[2] <= p[2] /\ p[2] <= b.maxs[2]

\* Aabb::contains(&other)
Contains(b, o) ==
    /\ b.mins[1] <= o.mins[1] /\ b.mins[2] <= o.mins[2]
    /\ o.maxs[1] <= b.maxs[1] /\ o.maxs[2] <= b.maxs[2]

\* Aabb::merged(&other)
Merged(b, o) ==
    [mins |-> <<Min(b.mins[1], o.mins[1]), Min(b.mins[2], o.mins[2])>>,
     maxs |-> <<Max(b.maxs[1], o.maxs[1]), Max(b.maxs[2], o.maxs[2])>>]

None == [none |-> TRUE]

\* Aabb::intersection(&other): None when the boxes are disjoint
Intersection(b, o) ==
    LET mins == <<Max(b.mins[1], o.mins[1]), Max(b.mins[2], o.mins[2])>>
        maxs == <<Min(b.maxs[1], o.maxs[1]), Min(b.maxs[2], o.maxs[2])>>
    IN  IF mins[1] > maxs[1] \/ mins[2] > maxs[2] THEN None
        ELSE AabbNew(mins, maxs)

-----------------------------------------------------------------------------
(* MarkerConfig *)

Shapes == {"Circular", "Rectangular"}
Widths == {Fx(15), Fx(1)}
Strengths == {50, 100}

\* MarkerConfig::default()
MarkerConfigDefault ==
    [strength |-> 50,
     width |-> Fx(15),
     shape |-> "Circular",
     color |-> [r |-> 100, g |-> 90, b |-> 0, a |-> 100]]

\* effective_color multiplying every channel by the strength
effective_color_all_channels(cfg) ==
    [r |-> (cfg.color.r * cfg.strength) \div 100,
     g |-> (cfg.color.g * cfg.strength) \div 100,
     b |-> (cfg.color.b * cfg.strength) \div 100,
     a |-> (cfg.color.a * cfg.strength) \div 100]

\* MarkerConfig::effective_color(): the colour with its alpha multiplied by strength
effective_color(cfg) ==
    [cfg.color EXCEPT !.a = (cfg.color.a * cfg.strength) \div 100]

\* the UI's setters of the marker configuration (markerpage.rs)
SetWidth(w) ==
    /\ w \in Widths
    /\ config' = [config EXCEPT !.width = w]

SetShape(s) ==
    /\ s \in Shapes
    /\ config' = [config EXCEPT !.shape = s]

SetStrength(x) ==
    /\ x \in Strengths
    /\ config' = [config EXCEPT !.strength = x]

-----------------------------------------------------------------------------
(* PenPath and MarkerStroke *)

\* rnote_compose::PenPath::new(start)
PenPathNew(start) == [start |-> start, segments |-> <<>>]

\* a segment (Segment::LineTo) and the point it ends at
LineTo(p) == [end |-> p]

\* the points of a path: its start and the end of every segment
PathPoints(path) ==
    {path.start} \cup {path.segments[i].end : i \in 1..Len(path.segments)}

\* PenPath::bounds(): the box around the path's points
PathBounds(path) ==
    LET pts == PathPoints(path)
        xs == {p[1] : p \in pts}
        ys == {p[2] : p \in pts}
        lo(S) == CHOOSE v \in S : \A u \in S : v <= u
        hi(S) == CHOOSE v \in S : \A u \in S : v >= u
    IN  AabbNew(<<lo(xs), lo(ys)>>, <<hi(xs), hi(ys)>>)

\* the point segment i of a path starts at
SegStart(path, i) == IF i = 1 THEN path.start ELSE path.segments[i - 1].end

\* PenPath::hitboxes(): one box per segment
PathHitboxes(path) ==
    [i \in 1..Len(path.segments) |->
        LET a == SegStart(path, i)
            b == path.segments[i].end
        IN  AabbNew(<<Min(a[1], b[1]), Min(a[2], b[2])>>,
                    <<Max(a[1], b[1]), Max(a[2], b[2])>>)]

\* the whole width where half of it is meant
HalfWidth_whole(w) == w

\* width * 0.5
HalfWidth(w) == (w * 5) \div 10

\* MarkerStroke::gen_hitboxes_int
gen_hitboxes_int(s) ==
    LET hbs == PathHitboxes(s.path)
    IN  [i \in DOMAIN hbs |-> Loosened(hbs[i], HalfWidth(s.width))]

\* update_geometry adding the hitboxes to those the stroke has
update_geometry_adds(s) == [s EXCEPT !.hitboxes = @ \o gen_hitboxes_int(s)]

\* Content::update_geometry for MarkerStroke
update_geometry(s) == [s EXCEPT !.hitboxes = gen_hitboxes_int(s)]

\* MarkerStroke::from_penpath
from_penpath(path, width, shape, color) ==
    update_geometry([path |-> path, width |-> width, shape |-> shape,
                     color |-> color, hitboxes |-> <<>>])

\* MarkerStroke::new
MarkerStrokeNew(start, width, shape, color) ==
    from_penpath(PenPathNew(start), width, shape, color)

\* bounds loosening the path's box by the whole width
Bounds_full_width(s) == Loosened(PathBounds(s.path), s.width)

\* Shapeable::bounds for MarkerStroke
Bounds(s) == Loosened(PathBounds(s.path), HalfWidth(s.width))

\* extend_w_segments putting the new segments in front of the path
extend_w_segments_front(s, segments) ==
    [s EXCEPT !.path.segments = segments \o s.path.segments]

\* extend_w_segments writing the first new segment over the path's last one
extend_w_segments_over_last(s, segments) ==
    [s EXCEPT !.path.segments =
                  IF @ = <<>> THEN segments
                  ELSE SubSeq(@, 1, Len(@) - 1) \o segments]

\* MarkerStroke::extend_w_segments
extend_w_segments(s, segments) ==
    [s EXCEPT !.path.segments = s.path.segments \o segments]

\* usize::saturating_sub
SatSub(a, b) == IF a >= b THEN a - b ELSE 0

\* render::Image: the box it covers and the segments (from, to] of the path it shows
Image(rect, from, to) == [rect |-> rect, from |-> from, to |-> to]

\* gen_images rasterizing the whole bounds of the stroke, not the part in the viewport
gen_images_unclipped(s, viewport, ok) ==
    LET bounds == Bounds(s)
        partial == ~Contains(viewport, bounds)
        clip == Intersection(viewport, bounds)
    IN  IF clip = None
        THEN [kind |-> "Partial", images |-> <<>>, viewport |-> viewport]
        ELSE LET images == IF ok THEN <<Image(bounds, 0, Len(s.path.segments))>>
                                 ELSE <<>>
             IN  IF partial
                 THEN [kind |-> "Partial", images |-> images, viewport |-> viewport]
                 ELSE [kind |-> "Full", images |-> images]

\* gen_images handing the error of Image::gen_with_piet to its caller
gen_images_propagates(s, viewport, ok) ==
    LET bounds == Bounds(s)
        partial == ~Contains(viewport, bounds)
        clip == Intersection(viewport, bounds)
    IN  IF clip = None
        THEN [kind |-> "Partial", images |-> <<>>, viewport |-> viewport]
        ELSE IF ~ok THEN [kind |-> "Err", images |-> <<>>]
        ELSE IF partial
        THEN [kind |-> "Partial",
              images |-> <<Image(clip, 0, Len(s.path.segments))>>, viewport |-> viewport]
        ELSE [kind |-> "Full", images |-> <<Image(clip, 0, Len(s.path.segments))>>]

\* Content::gen_images for MarkerStroke; ok is whether Image::gen_with_piet succeeds
gen_images(s, viewport, ok) ==
    LET bounds == Bounds(s)
        partial == ~Contains(viewport, bounds)
        clip == Intersection(viewport, bounds)
    IN  IF clip = None
        THEN [kind |-> "Partial", images |-> <<>>, viewport |-> viewport]
        ELSE LET images == IF ok THEN <<Image(clip, 0, Len(s.path.segments))>>
                                 ELSE <<>>
             IN  IF partial
                 THEN [kind |-> "Partial", images |-> images, viewport |-> viewport]
                 ELSE [kind |-> "Full", images |-> images]

\* range_path taking the segments from the front of the path
range_path_front(s, n_last_segments) ==
    LET path_len == Len(s.path.segments)
        idx == SatSub(SatSub(path_len, n_last_segments), 1)
        start_el == IF idx < path_len THEN s.path.segments[idx + 1].end
                    ELSE s.path.start
    IN  [start |-> start_el,
         segments |-> SubSeq(s.path.segments, 1, Min(n_last_segments, path_len))]

\* the sub-path MarkerStroke::gen_image_for_last_segments rasterizes
\* (indices of the code are 0-based, those of the model 1-based)
range_path(s, n_last_segments) ==
    LET path_len == Len(s.path.segments)
        idx == SatSub(SatSub(path_len, n_last_segments), 1)
        start_el == IF idx < path_len THEN s.path.segments[idx + 1].end
                    ELSE s.path.start
        from == SatSub(path_len, n_last_segments)
    IN  [start |-> start_el,
         segments |-> SubSeq(s.path.segments, from + 1, path_len)]

\* MarkerStroke::gen_image_for_last_segments: Ok(Some(image)), or the error of gen_with_piet
gen_image_for_last_segments(s, n_last_segments, ok) ==
    LET path_len == Len(s.path.segments)
        rp == range_path(s, n_last_segments)
        bounds == Loosened(PathBounds(rp), HalfWidth(s.width))
    IN  IF ok
        THEN [ok |-> TRUE,
              image |-> Image(bounds, SatSub(path_len, n_last_segments), path_len)]
        ELSE [ok |-> FALSE]

-----------------------------------------------------------------------------
(* The engine as handle_event sees it (EngineViewMut): store, document, camera *)

\* engine_view.camera.viewport()
Viewport == AabbNew(Pt(0, 0), Pt(600, 600))

\* the document's bounds before any stroke is drawn
DocumentInit == AabbNew(Pt(0, 0), Pt(500, 500))

\* the positions a Down carries: inside the document, in its overshoot
\* margin, and far outside of it
Elements == {Pt(10, 10), Pt(-20, -20), Pt(1000, 1000)}

\* the positions a Move or an Up carries: inside the document and far outside
DragElements == {Pt(200, 200), Pt(1000, 1000)}

\* PenEvent
Events ==
    [kind : {"Down"}, element : Elements]
        \cup [kind : {"Move", "Up"}, element : DragElements]
        \cup {[kind |-> "Cancel"]}

\* WidgetFlags::default() and the flags the code sets or merges
WidgetFlagsDefault == [store_modified |-> FALSE, resize |-> FALSE, refresh_ui |-> FALSE]

\* WidgetFlags: BitOrAssign
FlagsOr(a, b) ==
    [store_modified |-> a.store_modified \/ b.store_modified,
     resize |-> a.resize \/ b.resize,
     refresh_ui |-> a.refresh_ui \/ b.refresh_ui]

\* a call into the store, the document or a stroke, as recorded in trace
Call(op, key, n) == [op |-> op, key |-> key, n |-> n]

\* the engine at the start of a handle_event call
Ctx ==
    [store |-> store, render |-> render, tasks |-> tasks, document |-> document,
     history |-> history, autoexpands |-> autoexpands,
     widget_flags |-> WidgetFlagsDefault, trace |-> <<>>]

\* Element::filter_by_bounds: TRUE when the element lies outside the bounds
filter_by_bounds(element, bounds) == ~ContainsPoint(bounds, element)

\* StrokeStore::insert_stroke: the new stroke gets a fresh key and no images
insert_stroke(c, stroke) ==
    [c EXCEPT !.store = Append(@, stroke),
              !.render = Append(@, [kind |-> "Dirty", images |-> <<>>]),
              !.tasks = Append(@, <<>>),
              !.trace = Append(@, Call("insert_stroke", Len(c.store) + 1, 0))]

\* StrokeStore::regenerate_rendering_for_stroke: renders in-line and replaces the images
regenerate_rendering_for_stroke(c, key, ok) ==
    [c EXCEPT !.render[key] = gen_images(c.store[key], Viewport, ok),
              !.trace = Append(@, Call("regenerate_rendering_for_stroke", key, 0))]

\* StrokeStore::regenerate_rendering_for_stroke_threaded: hands the full render
\* of the stroke as it is now to the task queue
regenerate_rendering_for_stroke_threaded(c, key) ==
    [c EXCEPT !.tasks[key] =
                  Append(@, [op |-> "regenerate", n |-> 0,
                             len |-> Len(c.store[key].path.segments)]),
              !.trace = Append(@, Call("regenerate_rendering_for_stroke_threaded", key, 0))]

\* StrokeStore::append_rendering_last_segments: hands the render of the last
\* n segments of the stroke as it is now to the task queue
append_rendering_last_segments(c, key, n) ==
    [c EXCEPT !.tasks[key] =
                  Append(@, [op |-> "append", n |-> n,
                             len |-> Len(c.store[key].path.segments)]),
              !.trace = Append(@, Call("append_rendering_last_segments", key, n))]

\* StrokeStore::update_geometry_for_stroke
update_geometry_for_stroke(c, key) ==
    [c EXCEPT !.store[key] = update_geometry(@),
              !.trace = Append(@, Call("update_geometry_for_stroke", key, 0))]

\* the box around the document and every stroke
RECURSIVE ExpandedBounds(_, _, _)
ExpandedBounds(doc, strokes, i) ==
    IF i > Len(strokes) THEN doc
    ELSE ExpandedBounds(Merged(doc, Bounds(strokes[i])), strokes, i + 1)

\* Document::resize_autoexpand: grows the document to contain the strokes
resize_autoexpand(c) ==
    [c EXCEPT !.document = ExpandedBounds(@, c.store, 1),
              !.autoexpands = @ + 1,
              !.widget_flags = FlagsOr(@, [WidgetFlagsDefault EXCEPT !.resize = TRUE]),
              !.trace = Append(@, Call("resize_autoexpand", 0, 0))]

\* StrokeStore::record: one more history checkpoint
record(c) ==
    [c EXCEPT !.history = @ + 1,
              !.widget_flags = FlagsOr(@, [WidgetFlagsDefault EXCEPT !.refresh_ui = TRUE]),
              !.trace = Append(@, Call("record", 0, 0))]

\* ExtendStroke putting the new segments in the place of the path's segments
ExtendStroke_replaces(c, key, segments) ==
    IF key \in DOMAIN c.store
    THEN [c EXCEPT !.store[key].path.segments = segments,
                   !.widget_flags.store_modified = TRUE,
                   !.trace = Append(@, Call("extend_w_segments", key, Len(segments)))]
    ELSE c

\* markerstroke.extend_w_segments(segments) on the stroke get_stroke_mut returns,
\* with widget_flags.store_modified = true
ExtendStroke(c, key, segments) ==
    IF key \in DOMAIN c.store
    THEN [c EXCEPT !.store[key] = extend_w_segments(@, segments),
                   !.widget_flags.store_modified = TRUE,
                   !.trace = Append(@, Call("extend_w_segments", key, Len(segments)))]
    ELSE c

\* widget_flags.store_modified = true
SetStoreModified(c) == [c EXCEPT !.widget_flags.store_modified = TRUE]

\* the engine and the flags as the call leaves them
Commit(c) ==
    /\ store' = c.store
    /\ render' = c.render
    /\ tasks' = c.tasks
    /\ document' = c.document
    /\ history' = c.history
    /\ autoexpands' = c.autoexpands
    /\ widget_flags' = c.widget_flags
    /\ trace' = c.trace

-----------------------------------------------------------------------------
(* The path builder (Buildable, PenPathSimpleBuilder) *)

\* BuilderCreator::start: the builder of a new stroke
new_builder(element) == [buffer |-> <<>>]

\* the line segments through the given points
BuildSegments(points) == [i \in 1..Len(points) |-> LineTo(points[i])]

BuilderInProgress == [kind |-> "InProgress", segments |-> <<>>]
BuilderEmitContinue(segments) == [kind |-> "EmitContinue", segments |-> segments]
BuilderFinished(segments) == [kind |-> "Finished", segments |-> segments]

BuilderResult(handled, propagate, progress, builder) ==
    [handled |-> handled, propagate |-> propagate, progress |-> progress,
     builder |-> builder]

\* Buildable::handle_event: what a builder may answer to an event.  A Down or
\* a Move is buffered, emitted with the buffered points, or dropped; an Up
\* finishes the path, with or without segments.
BuilderHandleEvent(b, ev) ==
    IF ev.kind \in {"Down", "Move"}
    THEN {BuilderResult(TRUE, "Stop", BuilderInProgress,
                        [buffer |-> Append(b.buffer, ev.element)]) :
              x \in {1} \cap (IF Len(b.buffer) < MaxBuf THEN {1} ELSE {})}
         \cup {BuilderResult(TRUE, "Stop",
                   BuilderEmitContinue(BuildSegments(Append(b.buffer, ev.element))),
                   [buffer |-> <<>>]),
               BuilderResult(TRUE, "Stop", BuilderEmitContinue(<<>>), b)}
    ELSE IF ev.kind = "Up"
    THEN {BuilderResult(TRUE, "Stop",
              BuilderFinished(BuildSegments(Append(b.buffer, ev.element))),
              [buffer |-> <<>>]),
          BuilderResult(TRUE, "Stop", BuilderFinished(<<>>), [buffer |-> <<>>])}
    ELSE {}

-----------------------------------------------------------------------------
(* Marker::handle_event *)

\* INPUT_OVERSHOOT a hundred times too wide
INPUT_OVERSHOOT_wide == Fx(3000)

\* Marker::INPUT_OVERSHOOT
INPUT_OVERSHOOT == Fx(30)

\* MarkerState
Idle == [tag |-> "Idle"]
Drawing(path_builder, current_stroke_key) ==
    [tag |-> "Drawing", path_builder |-> path_builder,
     current_stroke_key |-> current_stroke_key]

EventResult(handled, propagate, progress) ==
    [handled |-> handled, propagate |-> propagate, progress |-> progress]

\* the event a handle_event call was given and the state it found
Given(ev, tag) ==
    [kind |-> ev.kind,
     element |-> IF ev.kind = "Cancel" THEN <<>> ELSE ev.element,
     from |-> tag]

\* what event, builder_result and event_result hold when there is none
NoEvent == [kind |-> "None", element |-> <<>>, from |-> "None"]
NoBuilderResult == [kind |-> "None", segments |-> <<>>]
NoEventResult == [handled |-> FALSE, propagate |-> "None", progress |-> "None"]

\* StartStroke handing the first render to the task queue
StartStroke_threaded(c, element, marker_config, ok) ==
    LET markerstroke == MarkerStrokeNew(element, marker_config.width,
                                        marker_config.shape,
                                        effective_color(marker_config))
        c1 == insert_stroke(c, markerstroke)
        current_stroke_key == Len(c1.store)
    IN  regenerate_rendering_for_stroke_threaded(c1, current_stroke_key)

\* StartStroke giving the stroke the configured colour, the strength left out
StartStroke_plain_color(c, element, marker_config, ok) ==
    LET markerstroke == MarkerStrokeNew(element, marker_config.width,
                                        marker_config.shape, marker_config.color)
        c1 == insert_stroke(c, markerstroke)
        current_stroke_key == Len(c1.store)
    IN  regenerate_rendering_for_stroke(c1, current_stroke_key, ok)

\* (Idle, Down) inside the margin: the new stroke is inserted and rendered in-line
StartStroke(c, element, marker_config, ok) ==
    LET markerstroke == MarkerStrokeNew(element, marker_config.width,
                                        marker_config.shape,
                                        effective_color(marker_config))
        c1 == insert_stroke(c, markerstroke)
        current_stroke_key == Len(c1.store)
    IN  regenerate_rendering_for_stroke(c1, current_stroke_key, ok)

\* CancelStroke without the recomputation of the geometry
CancelStroke_stale(c, current_stroke_key) ==
    LET c2 == regenerate_rendering_for_stroke_threaded(c, current_stroke_key)
        c3 == resize_autoexpand(c2)
        c4 == record(c3)
    IN  SetStoreModified(c4)

\* CancelStroke growing the document only after the checkpoint is recorded
CancelStroke_expand_last(c, current_stroke_key) ==
    LET c1 == update_geometry_for_stroke(c, current_stroke_key)
        c2 == regenerate_rendering_for_stroke_threaded(c1, current_stroke_key)
        c3 == record(c2)
        c4 == resize_autoexpand(c3)
    IN  SetStoreModified(c4)

\* CancelStroke assigning the flags of record where it should merge them
CancelStroke_overwrites(c, current_stroke_key) ==
    LET c1 == update_geometry_for_stroke(c, current_stroke_key)
        c2 == regenerate_rendering_for_stroke_threaded(c1, current_stroke_key)
        c3 == resize_autoexpand(c2)
        c4 == [record(c3) EXCEPT
                  !.widget_flags = [WidgetFlagsDefault EXCEPT !.refresh_ui = TRUE]]
    IN  SetStoreModified(c4)

\* (Drawing, Cancel): finish up the last stroke
CancelStroke(c, current_stroke_key) ==
    LET c1 == update_geometry_for_stroke(c, current_stroke_key)
        c2 == regenerate_rendering_for_stroke_threaded(c1, current_stroke_key)
        c3 == resize_autoexpand(c2)
        c4 == record(c3)
    IN  SetStoreModified(c4)

\* AppendSegments without the test for an empty emission
AppendSegments_unguarded(c, current_stroke_key, segments) ==
    append_rendering_last_segments(
        ExtendStroke(c, current_stroke_key, segments),
        current_stroke_key, Len(segments))

\* the segments a builder emitted are appended and their render is dispatched
AppendSegments(c, current_stroke_key, segments) ==
    LET n_segments == Len(segments)
    IN  IF n_segments # 0
        THEN append_rendering_last_segments(
                 ExtendStroke(c, current_stroke_key, segments),
                 current_stroke_key, n_segments)
        ELSE c

\* BuilderProgress::EmitContinue(segments)
EmitContinue(c, current_stroke_key, segments) ==
    AppendSegments(c, current_stroke_key, segments)

\* Finished dispatching the full render before the render of the last segments
Finished_render_first(c, current_stroke_key, segments) ==
    LET c0 == regenerate_rendering_for_stroke_threaded(c, current_stroke_key)
        c1 == AppendSegments(c0, current_stroke_key, segments)
        c2 == update_geometry_for_stroke(c1, current_stroke_key)
        c3 == resize_autoexpand(c2)
        c4 == record(c3)
    IN  SetStoreModified(c4)

\* Finished without the history checkpoint
Finished_unrecorded(c, current_stroke_key, segments) ==
    LET c0 == AppendSegments(c, current_stroke_key, segments)
        c1 == update_geometry_for_stroke(c0, current_stroke_key)
        c2 == regenerate_rendering_for_stroke_threaded(c1, current_stroke_key)
        c3 == resize_autoexpand(c2)
    IN  SetStoreModified(c3)

\* Finished without the recomputation of the geometry
Finished_stale(c, current_stroke_key, segments) ==
    LET c0 == AppendSegments(c, current_stroke_key, segments)
        c2 == regenerate_rendering_for_stroke_threaded(c0, current_stroke_key)
        c3 == resize_autoexpand(c2)
        c4 == record(c3)
    IN  SetStoreModified(c4)

\* BuilderProgress::Finished(segments): the segments are appended, then the
\* stroke is finished up
Finished(c, current_stroke_key, segments) ==
    LET c0 == AppendSegments(c, current_stroke_key, segments)
        c1 == update_geometry_for_stroke(c0, current_stroke_key)
        c2 == regenerate_rendering_for_stroke_threaded(c1, current_stroke_key)
        c3 == resize_autoexpand(c2)
        c4 == record(c3)
    IN  SetStoreModified(c4)

\* the segments in the store and the tasks in flight, as the bounds count them
RECURSIVE SumLen(_, _)
SumLen(seqs, i) == IF i > Len(seqs) THEN 0 ELSE Len(seqs[i]) + SumLen(seqs, i + 1)

TotalSegs == SumLen([k \in DOMAIN store |-> store[k].path.segments], 1)
Pending == SumLen(tasks, 1)

\* HandleIdleDown inserting the stroke and leaving the pen Idle
HandleIdleDown_stays_idle(ev, outcomes) ==
    /\ state.tag = "Idle"
    /\ ev.kind = "Down"
    /\ ~filter_by_bounds(ev.element, Loosened(document, INPUT_OVERSHOOT))
    /\ Len(store) < MaxStrokes
    /\ \E ok \in outcomes : Commit(StartStroke(Ctx, ev.element, config, ok))
    /\ state' = state
    /\ event_result' = EventResult(TRUE, "Stop", "InProgress")
    /\ event' = Given(ev, state.tag)
    /\ builder_result' = NoBuilderResult
    /\ UNCHANGED <<config, changes>>

\* (MarkerState::Idle, PenEvent::Down) with the element inside the margin
HandleIdleDown(ev, outcomes) ==
    /\ state.tag = "Idle"
    /\ ev.kind = "Down"
    /\ ~filter_by_bounds(ev.element, Loosened(document, INPUT_OVERSHOOT))
    /\ Len(store) < MaxStrokes
    /\ \E ok \in outcomes :
        LET c == StartStroke(Ctx, ev.element, config, ok)
        IN  /\ Commit(c)
            /\ state' = Drawing(new_builder(ev.element), Len(c.store))
    /\ event_result' = EventResult(TRUE, "Stop", "InProgress")
    /\ event' = Given(ev, state.tag)
    /\ builder_result' = NoBuilderResult
    /\ UNCHANGED <<config, changes>>

\* (MarkerState::Idle, PenEvent::Down) with the element outside the margin
HandleIdleDownOutside(ev) ==
    /\ state.tag = "Idle"
    /\ ev.kind = "Down"
    /\ filter_by_bounds(ev.element, Loosened(document, INPUT_OVERSHOOT))
    /\ Commit(Ctx)
    /\ event_result' = EventResult(FALSE, "Proceed", "Idle")
    /\ event' = Given(ev, state.tag)
    /\ builder_result' = NoBuilderResult
    /\ UNCHANGED <<state, config, changes>>

\* (MarkerState::Idle, _)
HandleIdleOther(ev) ==
    /\ state.tag = "Idle"
    /\ ev.kind # "Down"
    /\ Commit(Ctx)
    /\ event_result' = EventResult(FALSE, "Proceed", "Idle")
    /\ event' = Given(ev, state.tag)
    /\ builder_result' = NoBuilderResult
    /\ UNCHANGED <<state, config, changes>>

\* (MarkerState::Drawing, PenEvent::Cancel)
HandleDrawingCancel(ev) ==
    /\ state.tag = "Drawing"
    /\ ev.kind = "Cancel"
    /\ Pending + 1 <= MaxPending
    /\ Commit(CancelStroke(Ctx, state.current_stroke_key))
    /\ state' = Idle
    /\ event_result' = EventResult(TRUE, "Stop", "Finished")
    /\ event' = Given(ev, state.tag)
    /\ builder_result' = NoBuilderResult
    /\ UNCHANGED <<config, changes>>

\* HandleDrawingEvent testing the element against the bounds as the Down of
\* a new stroke is tested, and leaving the event unhandled when it is outside
HandleDrawingEvent_filtered(ev) ==
    /\ state.tag = "Drawing"
    /\ ev.kind # "Cancel"
    /\ IF filter_by_bounds(ev.element, Loosened(document, INPUT_OVERSHOOT))
       THEN /\ Commit(Ctx)
            /\ builder_result' = NoBuilderResult
            /\ event_result' = EventResult(FALSE, "Proceed", "InProgress")
            /\ state' = state
       ELSE \E br \in BuilderHandleEvent(state.path_builder, ev) :
        LET key == state.current_stroke_key
            segments == br.progress.segments
        IN  /\ TotalSegs + Len(segments) <= MaxSegs
            /\ Pending + (IF Len(segments) # 0 THEN 1 ELSE 0)
                       + (IF br.progress.kind = "Finished" THEN 1 ELSE 0) <= MaxPending
            /\ builder_result' = br.progress
            /\ \/ /\ br.progress.kind = "InProgress"
                  /\ Commit(Ctx)
                  /\ state' = Drawing(br.builder, key)
                  /\ event_result' = EventResult(br.handled, br.propagate, "InProgress")
               \/ /\ br.progress.kind = "EmitContinue"
                  /\ Commit(EmitContinue(Ctx, key, segments))
                  /\ state' = Drawing(br.builder, key)
                  /\ event_result' = EventResult(br.handled, br.propagate, "InProgress")
               \/ /\ br.progress.kind = "Finished"
                  /\ Commit(Finished(Ctx, key, segments))
                  /\ state' = Idle
                  /\ event_result' = EventResult(br.handled, br.propagate, "Finished")
    /\ event' = Given(ev, state.tag)
    /\ UNCHANGED <<config, changes>>

\* (MarkerState::Drawing, pen_event): the event goes to the path builder
HandleDrawingEvent(ev) ==
    /\ state.tag = "Drawing"
    /\ ev.kind # "Cancel"
    /\ \E br \in BuilderHandleEvent(state.path_builder, ev) :
        LET key == state.current_stroke_key
            segments == br.progress.segments
        IN  /\ TotalSegs + Len(segments) <= MaxSegs
            /\ Pending + (IF Len(segments) # 0 THEN 1 ELSE 0)
                       + (IF br.progress.kind = "Finished" THEN 1 ELSE 0) <= MaxPending
            /\ builder_result' = br.progress
            /\ \/ /\ br.progress.kind = "InProgress"
                  /\ Commit(Ctx)
                  /\ state' = Drawing(br.builder, key)
                  /\ event_result' = EventResult(br.handled, br.propagate, "InProgress")
               \/ /\ br.progress.kind = "EmitContinue"
                  /\ Commit(EmitContinue(Ctx, key, segments))
                  /\ state' = Drawing(br.builder, key)
                  /\ event_result' = EventResult(br.handled, br.propagate, "InProgress")
               \/ /\ br.progress.kind = "Finished"
                  /\ Commit(Finished(Ctx, key, segments))
                  /\ state' = Idle
                  /\ event_result' = EventResult(br.handled, br.propagate, "Finished")
    /\ event' = Given(ev, state.tag)
    /\ UNCHANGED <<config, changes>>

\* handle_event with a Down while Drawing starting a new stroke
handle_event_restarts(ev, outcomes) ==
    \/ HandleIdleDown(ev, outcomes)
    \/ HandleIdleDownOutside(ev)
    \/ HandleIdleOther(ev)
    \/ HandleDrawingCancel(ev)
    \/ ev.kind # "Down" /\ HandleDrawingEvent(ev)
    \/ /\ state.tag = "Drawing"
       /\ ev.kind = "Down"
       /\ Len(store) < MaxStrokes
       /\ \E ok \in outcomes :
           LET c == StartStroke(Ctx, ev.element, config, ok)
           IN  /\ Commit(c)
               /\ state' = Drawing(new_builder(ev.element), Len(c.store))
       /\ event_result' = EventResult(TRUE, "Stop", "InProgress")
       /\ event' = Given(ev, state.tag)
       /\ builder_result' = NoBuilderResult
       /\ UNCHANGED <<config, changes>>

\* Marker::handle_event; outcomes is what Image::gen_with_piet may answer
\* (TRUE: an image, FALSE: an error)
handle_event(ev, outcomes) ==
    \/ HandleIdleDown(ev, outcomes)
    \/ HandleIdleDownOutside(ev)
    \/ HandleIdleOther(ev)
    \/ HandleDrawingCancel(ev)
    \/ HandleDrawingEvent(ev)

-----------------------------------------------------------------------------
(* The background render tasks and the configuration page *)

\* no handle_event call was made by this step
NoCall ==
    /\ event' = NoEvent
    /\ builder_result' = NoBuilderResult
    /\ event_result' = NoEventResult
    /\ widget_flags' = WidgetFlagsDefault
    /\ trace' = <<>>

\* the stroke as it was when a task was dispatched: the path only grows
Snapshot(key, len) ==
    [store[key] EXCEPT !.path.segments = SubSeq(@, 1, len)]

\* the images of a stroke once a task's result is applied: a full render
\* replaces them, the render of the last segments is appended to them
ApplyTask(images, task, key, ok) ==
    IF task.op = "regenerate"
    THEN gen_images(Snapshot(key, task.len), Viewport, ok)
    ELSE LET r == gen_image_for_last_segments(Snapshot(key, task.len), task.n, ok)
         IN  IF r.ok THEN [images EXCEPT !.images = Append(@, r.image)]
             ELSE images

\* the oldest render task of a stroke completes and its result reaches the store
ProcessTask(key, outcomes) ==
    /\ key \in DOMAIN tasks
    /\ tasks[key] # <<>>
    /\ \E ok \in outcomes :
        render' = [render EXCEPT ![key] = ApplyTask(@, Head(tasks[key]), key, ok)]
    /\ tasks' = [tasks EXCEPT ![key] = Tail(@)]
    /\ NoCall
    /\ UNCHANGED <<state, config, changes, store, document, history, autoexpands>>

\* the stroke width picker, the shape list and the strength slider of the page
ConfigureWidth(w) ==
    /\ changes < MaxChanges
    /\ w # config.width
    /\ SetWidth(w)
    /\ changes' = changes + 1
    /\ NoCall
    /\ UNCHANGED <<state, store, render, tasks, document, history, autoexpands>>

ConfigureShape(s) ==
    /\ changes < MaxChanges
    /\ s # config.shape
    /\ SetShape(s)
    /\ changes' = changes + 1
    /\ NoCall
    /\ UNCHANGED <<state, store, render, tasks, document, history, autoexpands>>

ConfigureStrength(x) ==
    /\ changes < MaxChanges
    /\ x # config.strength
    /\ SetStrength(x)
    /\ changes' = changes + 1
    /\ NoCall
    /\ UNCHANGED <<state, store, render, tasks, document, history, autoexpands>>

-----------------------------------------------------------------------------
(* The specification *)

Init ==
    /\ state = Idle
    /\ config = MarkerConfigDefault
    /\ store = <<>>
    /\ render = <<>>
    /\ tasks = <<>>
    /\ document = DocumentInit
    /\ history = 0
    /\ autoexpands = 0
    /\ changes = 0
    /\ event = NoEvent
    /\ builder_result = NoBuilderResult
    /\ event_result = NoEventResult
    /\ widget_flags = WidgetFlagsDefault
    /\ trace = <<>>

\* the pen and the render tasks, every render succeeding
Next ==
    \/ \E ev \in Events : handle_event(ev, {TRUE})
    \/ \E key \in 1..MaxStrokes : ProcessTask(key, {TRUE})

Spec == Init /\ [][Next]_vars

\* the pen, the render tasks and the configuration page
NextConfig ==
    \/ \E ev \in Events : handle_event(ev, {TRUE})
    \/ \E key \in 1..MaxStrokes : ProcessTask(key, {TRUE})
    \/ \E w \in Widths : ConfigureWidth(w)
    \/ \E s \in Shapes : ConfigureShape(s)
    \/ \E x \in Strengths : ConfigureStrength(x)

SpecConfig == Init /\ [][NextConfig]_vars

\* the pen and the render tasks, a render succeeding or failing
NextRender ==
    \/ \E ev \in Events : handle_event(ev, BOOLEAN)
    \/ \E key \in 1..MaxStrokes : ProcessTask(key, BOOLEAN)

SpecRender == Init /\ [][NextRender]_vars

\* the methods of MarkerStroke, called in any order on a stroke of any path
\* (as the store, the selector and the renderer call them)

\* the points the paths go through: inside the viewport and far outside of it
Points == {Pt(10, 10)} \cup DragElements

\* PenPath: a start and up to MaxPath segments
Paths ==
    {[start |-> p, segments |-> segs] :
        p \in Points,
        segs \in UNION {[1..k -> {LineTo(q) : q \in Points}] : k \in 0..MaxPath}}

\* the viewports gen_images is given: the camera's, and a small one
Viewports == {Viewport, AabbNew(Pt(0, 0), Pt(100, 100))}

\* a method of the stroke was called with the given arguments, after the
\* method prev; the pen, the document and the task queue are not involved
StrokeCall(op, n, viewport, ok) ==
    /\ trace' = <<[op |-> op, key |-> 1, n |-> n, viewport |-> viewport, ok |-> ok,
                    prev |-> IF trace = <<>> THEN "None" ELSE trace[1].op]>>
    /\ event' = NoEvent
    /\ builder_result' = NoBuilderResult
    /\ event_result' = NoEventResult
    /\ widget_flags' = WidgetFlagsDefault
    /\ UNCHANGED <<state, config, tasks, document, history, autoexpands, changes>>

\* markerstroke.extend_w_segments(segments)
ExtendWSegments(segments) ==
    /\ Len(store[1].path.segments) + Len(segments) <= MaxPath
    /\ store' = [store EXCEPT ![1] = extend_w_segments(@, segments)]
    /\ render' = render
    /\ StrokeCall("extend_w_segments", Len(segments), None, TRUE)

\* markerstroke.update_geometry()
UpdateGeometry ==
    /\ store' = [store EXCEPT ![1] = update_geometry(@)]
    /\ render' = render
    /\ StrokeCall("update_geometry", 0, None, TRUE)

\* markerstroke.gen_images(viewport, image_scale): render holds what it returned
GenImages(viewport, ok) ==
    /\ render' = <<[returned |-> gen_images(store[1], viewport, ok)]>>
    /\ store' = store
    /\ StrokeCall("gen_images", 0, viewport, ok)

\* markerstroke.gen_image_for_last_segments(n_last_segments, image_scale):
\* render holds what it returned and the sub-path it rasterized
GenImageForLastSegments(n_last_segments, ok) ==
    /\ render' = <<[returned |-> gen_image_for_last_segments(store[1], n_last_segments, ok),
                    range_path |-> range_path(store[1], n_last_segments)]>>
    /\ store' = store
    /\ StrokeCall("gen_image_for_last_segments", n_last_segments, None, ok)

\* a stroke built by MarkerStroke::from_penpath from any path and width
InitStroke ==
    /\ state = Idle
    /\ config = MarkerConfigDefault
    /\ \E path \in Paths, width \in Widths :
           store = <<from_penpath(path, width, MarkerConfigDefault.shape,
                                  effective_color(MarkerConfigDefault))>>
    /\ render = <<[kind |-> "Dirty", images |-> <<>>]>>
    /\ tasks = <<<<>>>>
    /\ document = DocumentInit
    /\ history = 0
    /\ autoexpands = 0
    /\ changes = 0
    /\ event = NoEvent
    /\ builder_result = NoBuilderResult
    /\ event_result = NoEventResult
    /\ widget_flags = WidgetFlagsDefault
    /\ trace = <<>>

NextStroke ==
    \/ \E q \in Points : ExtendWSegments(<<LineTo(q)>>)
    \/ UpdateGeometry
    \/ \E viewport \in Viewports, ok \in BOOLEAN : GenImages(viewport, ok)
    \/ \E n \in 0..(MaxPath + 1), ok \in BOOLEAN : GenImageForLastSegments(n, ok)

SpecStroke == InitStroke /\ [][NextStroke]_vars

-----------------------------------------------------------------------------
(* What the properties below speak of *)

\* the step is a handle_event call that found the pen in the given state
Handles(tag) == state.tag = tag /\ event'.kind # "None"

\* the position lies within the bounds loosened by 30 units
WithinMargin(p, bounds) ==
    /\ bounds.mins[1] - Fx(30) <= p[1] /\ p[1] <= bounds.maxs[1] + Fx(30)
    /\ bounds.mins[2] - Fx(30) <= p[2] /\ p[2] <= bounds.maxs[2] + Fx(30)

\* the calls of a trace with the given name
CallsOf(tr, op) == {i \in DOMAIN tr : tr[i].op = op}

FullRenders == {"regenerate_rendering_for_stroke", "regenerate_rendering_for_stroke_threaded"}
Renders == FullRenders \cup {"append_rendering_last_segments"}

\* the calls of a trace that request a render
RenderCalls(tr) == {i \in DOMAIN tr : tr[i].op \in Renders}

\* the step takes the pen from Drawing to Idle: a stroke is finalized
Finalizes == state.tag = "Drawing" /\ state'.tag = "Idle"

-----------------------------------------------------------------------------
(* C1 *)

\* C1: in Idle, a Down whose position lies within the document bounds loosened
\* by 30 units inserts exactly one new stroke (built from the current width,
\* shape and effective colour of the configuration), requests a full render
\* for it, leaves the pen Drawing with that stroke's key, and returns
\* handled = true, propagate = Stop, progress = InProgress.
C1_DownStartsStroke ==
    [][(Handles("Idle") /\ event'.kind = "Down"
            /\ WithinMargin(event'.element, document))
        => LET key == Len(store) + 1
           IN  /\ Len(store') = key
               /\ SubSeq(store', 1, Len(store)) = store
               /\ store'[key].path = [start |-> event'.element, segments |-> <<>>]
               /\ store'[key].width = config.width
               /\ store'[key].shape = config.shape
               /\ store'[key].color =
                      [r |-> config.color.r, g |-> config.color.g, b |-> config.color.b,
                       a |-> (config.color.a * config.strength) \div 100]
               /\ trace' = <<Call("insert_stroke", key, 0),
                             Call("regenerate_rendering_for_stroke", key, 0)>>
               /\ state'.tag = "Drawing"
               /\ state'.current_stroke_key = key
               /\ event_result' = EventResult(TRUE, "Stop", "InProgress")]_vars

\* a Down in the overshoot margin has started a stroke under a changed configuration
C1_Witness ==
    /\ event.kind = "Down" /\ event.from = "Idle"
    /\ event.element = Pt(-20, -20)
    /\ state.tag = "Drawing"
    /\ config.strength = 100
    /\ store[state.current_stroke_key].color.a = 100

-----------------------------------------------------------------------------
(* C2 *)

\* C2: in Idle, every event other than a Down within the margin (a Down
\* outside of it, a Move, an Up, a Cancel) returns handled = false,
\* propagate = Proceed, progress = Idle, leaves the pen Idle and changes
\* nothing: no stroke, no render request, no checkpoint, no widget flag.
C2_IdleIgnores ==
    [][(Handles("Idle")
            /\ ~(event'.kind = "Down" /\ WithinMargin(event'.element, document)))
        => /\ event_result' = EventResult(FALSE, "Proceed", "Idle")
           /\ state' = Idle
           /\ trace' = <<>>
           /\ widget_flags' = WidgetFlagsDefault
           /\ UNCHANGED <<store, render, tasks, document, history, autoexpands,
                          config>>]_vars

\* a Down far outside the document was left unhandled while a stroke could
\* still have been started
C2_Witness ==
    /\ event.kind = "Down" /\ event.from = "Idle"
    /\ event.element = Pt(1000, 1000)
    /\ event_result = EventResult(FALSE, "Proceed", "Idle")
    /\ Len(store) < MaxStrokes

-----------------------------------------------------------------------------
(* C3 *)

\* C3: a Cancel while Drawing, also right after the Down with no segment
\* emitted, recomputes the stroke's geometry, requests a full render, records
\* exactly one history checkpoint, leaves the pen Idle and returns
\* handled = true, propagate = Stop, progress = Finished.
C3_CancelFinalizes ==
    [][(Handles("Drawing") /\ event'.kind = "Cancel")
        => LET key == state.current_stroke_key
           IN  /\ store'[key] = update_geometry(store[key])
               /\ \E i \in CallsOf(trace', "update_geometry_for_stroke") :
                      trace'[i].key = key
               /\ \E i \in DOMAIN trace' :
                      trace'[i].op \in FullRenders /\ trace'[i].key = key
               /\ Cardinality(CallsOf(trace', "record")) = 1
               /\ history' = history + 1
               /\ state' = Idle
               /\ event_result' = EventResult(TRUE, "Stop", "Finished")]_vars

\* a stroke was cancelled before any segment was emitted
C3_Witness ==
    /\ event.kind = "Cancel" /\ event.from = "Drawing"
    /\ state = Idle
    /\ store[Len(store)].path.segments = <<>>
    /\ history = 1

-----------------------------------------------------------------------------
(* C4 *)

\* C4: a history checkpoint is recorded exactly once by every step that takes
\* the pen from Drawing to Idle, and by no other step.
C4_CheckpointPerFinalize ==
    [][/\ history' = history + (IF Finalizes THEN 1 ELSE 0)
       /\ Cardinality(CallsOf(trace', "record")) = (IF Finalizes THEN 1 ELSE 0)]_vars

\* two strokes were finalized, the last one by the builder finishing
C4_Witness ==
    /\ history = 2
    /\ builder_result.kind = "Finished"
    /\ state = Idle

-----------------------------------------------------------------------------
(* C5 *)

\* C5: every step that finalizes a stroke requests the document's auto-expand
\* exactly once, after the stroke's geometry is recomputed and before the
\* history checkpoint is recorded; no other step requests it.
C5_AutoexpandPerFinalize ==
    [][/\ autoexpands' = autoexpands + (IF Finalizes THEN 1 ELSE 0)
       /\ Cardinality(CallsOf(trace', "resize_autoexpand")) = (IF Finalizes THEN 1 ELSE 0)
       /\ Finalizes =>
            \E i, j, k \in DOMAIN trace' :
                /\ i < j /\ j < k
                /\ trace'[i] = Call("update_geometry_for_stroke",
                                    state.current_stroke_key, 0)
                /\ trace'[j].op = "resize_autoexpand"
                /\ trace'[k].op = "record"]_vars

\* a finished stroke that left the document has made it grow
C5_Witness ==
    /\ state = Idle
    /\ builder_result.kind = "Finished"
    /\ autoexpands = 1
    /\ document # DocumentInit

-----------------------------------------------------------------------------
(* C6 *)

\* C6: while Drawing, when the builder emits N > 0 segments (continuing or
\* finishing), the active stroke's path grows by exactly those segments, in
\* the order emitted, and one render of the last N segments is requested for
\* that stroke; a continuing emission requests no full render.
C6_EmittedSegmentsAppended ==
    [][(Handles("Drawing") /\ builder_result'.segments # <<>>)
        => LET key == state.current_stroke_key
               N == Len(builder_result'.segments)
           IN  /\ store'[key].path.start = store[key].path.start
               /\ store'[key].path.segments =
                      store[key].path.segments \o builder_result'.segments
               /\ \A k \in DOMAIN store : k # key => store'[k] = store[k]
               /\ \E i \in DOMAIN trace' :
                      /\ trace'[i] = Call("append_rendering_last_segments", key, N)
                      /\ CallsOf(trace', "append_rendering_last_segments") = {i}
               /\ builder_result'.kind = "EmitContinue" =>
                      \A i \in DOMAIN trace' : trace'[i].op \notin FullRenders]_vars

\* two different segments were emitted at once and the stroke goes on
C6_Witness ==
    /\ state.tag = "Drawing"
    /\ builder_result.kind = "EmitContinue"
    /\ Len(builder_result.segments) = 2
    /\ builder_result.segments[1] # builder_result.segments[2]
    /\ store[state.current_stroke_key].path.segments = builder_result.segments

-----------------------------------------------------------------------------
(* C7 *)

\* C7 as stated: when the builder reports an emission of zero segments,
\* handling the event requests no render and does not change the store.
C7_ZeroSegmentsSilent ==
    [][(Handles("Drawing") /\ builder_result'.kind \in {"EmitContinue", "Finished"}
            /\ builder_result'.segments = <<>>)
        => /\ RenderCalls(trace') = {}
           /\ UNCHANGED <<store, history>>]_vars

\* C7, amended: when the builder reports an emission of zero segments, no
\* segment is appended and no render of last segments is requested.  If the
\* builder continues, the event is silent: no render request, no change of the
\* store.  If it finishes, the stroke is still finalized: geometry recomputed,
\* full render requested, checkpoint recorded.
C7_ZeroSegments ==
    [][(Handles("Drawing") /\ builder_result'.kind \in {"EmitContinue", "Finished"}
            /\ builder_result'.segments = <<>>)
        => LET key == state.current_stroke_key
           IN  /\ store'[key].path = store[key].path
               /\ CallsOf(trace', "append_rendering_last_segments") = {}
               /\ CallsOf(trace', "extend_w_segments") = {}
               /\ builder_result'.kind = "EmitContinue" =>
                      /\ trace' = <<>>
                      /\ widget_flags' = WidgetFlagsDefault
                      /\ UNCHANGED <<store, render, tasks, document, history>>
               /\ builder_result'.kind = "Finished" =>
                      /\ store'[key] = update_geometry(store[key])
                      /\ \E i \in CallsOf(trace', "regenerate_rendering_for_stroke_threaded") :
                             trace'[i].key = key
                      /\ history' = history + 1]_vars

\* an Up finished a stroke without emitting, after a segment had been appended
C7_Witness ==
    /\ event.kind = "Up" /\ event.from = "Drawing"
    /\ builder_result = BuilderFinished(<<>>)
    /\ state = Idle
    /\ Len(store[Len(store)].path.segments) = 1

-----------------------------------------------------------------------------
(* C8 *)

-----------------------------------------------------------------------------
(* C9 *)

\* C9 as stated: the Down that starts a stroke and the Cancel render in-line
\* and hand no render task to the task queue.
C9_InlineRenders ==
    [][((Handles("Idle") /\ event_result'.handled)
            \/ (Handles("Drawing") /\ event'.kind = "Cancel"))
        => /\ SumLen(tasks', 1) = SumLen(tasks, 1)
           /\ \A i \in RenderCalls(trace') :
                  trace'[i].op = "regenerate_rendering_for_stroke"]_vars

\* C9, amended: only the Down that starts a stroke renders in-line, handing
\* nothing to the task queue; the renders of last segments, the full render
\* when the builder finishes and the full render on Cancel are handed to the
\* task queue and leave the images of the store as they are.
C9_RenderDispatch ==
    [][/\ (Handles("Idle") /\ event_result'.handled) =>
            LET key == Len(store')
            IN  /\ tasks' = Append(tasks, <<>>)
                /\ \E ok \in BOOLEAN :
                       render'[key] = gen_images(store'[key], Viewport, ok)
                /\ \A i \in RenderCalls(trace') :
                       trace'[i].op = "regenerate_rendering_for_stroke"
       /\ Handles("Drawing") =>
            LET key == state.current_stroke_key
                len == Len(store'[key].path.segments)
                N == Len(builder_result'.segments)
                finish == [op |-> "regenerate", n |-> 0, len |-> len]
                append == [op |-> "append", n |-> N, len |-> len]
            IN  /\ render' = render
                /\ \A i \in RenderCalls(trace') :
                       trace'[i].op # "regenerate_rendering_for_stroke"
                /\ tasks'[key] = tasks[key]
                       \o (IF N # 0 THEN <<append>> ELSE <<>>)
                       \o (IF Finalizes THEN <<finish>> ELSE <<>>)]_vars

\* a Cancel has handed the full render of its stroke to the task queue
C9_Witness ==
    /\ event.kind = "Cancel" /\ event.from = "Drawing"
    /\ state = Idle
    /\ tasks[Len(store)] =
           <<[op |-> "regenerate", n |-> 0, len |-> Len(store[Len(store)].path.segments)]>>

-----------------------------------------------------------------------------
(* C10 *)

\* C10: no event handled while Drawing starts a stroke: the store gets no new
\* stroke and the session keeps its stroke key; a Down while Drawing goes to
\* the active builder, whose answer decides how the stroke goes on.
C10_NoStrokeWhileDrawing ==
    [][Handles("Drawing")
        => /\ Len(store') = Len(store)
           /\ CallsOf(trace', "insert_stroke") = {}
           /\ state'.tag = "Drawing" =>
                  state'.current_stroke_key = state.current_stroke_key
           /\ event'.kind = "Down" =>
                  \E br \in BuilderHandleEvent(state.path_builder,
                                               [kind |-> "Down", element |-> event'.element]) :
                      /\ builder_result' = br.progress
                      /\ state'.tag = "Drawing"
                      /\ state'.path_builder = br.builder]_vars

\* a second Down arrived while Drawing, with room for another stroke in the store
C10_Witness ==
    /\ event.kind = "Down" /\ event.from = "Drawing"
    /\ state.tag = "Drawing"
    /\ Len(store) < MaxStrokes
    /\ builder_result.kind = "EmitContinue"

-----------------------------------------------------------------------------
(* C11 *)

\* the box is the smallest one around the points, grown by half the width on
\* every side (stated on doubled coordinates, so that nothing is divided)
TightBox(box, pts, width) ==
    /\ \A p \in pts :
           /\ 2 * box.mins[1] + width <= 2 * p[1] /\ 2 * p[1] <= 2 * box.maxs[1] - width
           /\ 2 * box.mins[2] + width <= 2 * p[2] /\ 2 * p[2] <= 2 * box.maxs[2] - width
    /\ \E p \in pts : 2 * p[1] = 2 * box.mins[1] + width
    /\ \E p \in pts : 2 * p[1] = 2 * box.maxs[1] - width
    /\ \E p \in pts : 2 * p[2] = 2 * box.mins[2] + width
    /\ \E p \in pts : 2 * p[2] = 2 * box.maxs[2] - width

\* the points of the stroke with the given key after the step
PointsAfter(key) ==
    {store'[key].path.start}
        \cup {store'[key].path.segments[i].end : i \in DOMAIN store'[key].path.segments}

-----------------------------------------------------------------------------
(* C12 *)

\* the stroke is committed: it is in the store and no session is drawing it
Committed(key) ==
    /\ key \in DOMAIN store
    /\ ~(state.tag = "Drawing" /\ state.current_stroke_key = key)

\* C12 as stated: the path of a committed stroke has at least one segment; a
\* stroke without segments is only ever the stroke being drawn.
C12_CommittedNeverEmpty ==
    \A key \in DOMAIN store : Committed(key) => store[key].path.segments # <<>>

\* C12, amended: a stroke is committed with its start and the segments
\* emitted during its session, all of them and no others, so its path has no
\* segment exactly when the session ended (by a Cancel or by a finish) before
\* any segment was emitted; a committed path never changes.
C12_CommittedAsDrawn ==
    [][/\ \A key \in DOMAIN store :
              /\ store'[key].path.start = store[key].path.start
              /\ store'[key].path.segments =
                     store[key].path.segments
                         \o (IF Committed(key) THEN <<>> ELSE builder_result'.segments)
       /\ Finalizes =>
              /\ history' = history + 1
              /\ event'.kind = "Cancel" =>
                     store'[state.current_stroke_key].path =
                         store[state.current_stroke_key].path]_vars

\* a stroke cancelled right after its Down stays in the store without a
\* segment while the next stroke is drawn
C12_Witness ==
    /\ Len(store) = 2
    /\ store[1].path.segments = <<>>
    /\ history = 1
    /\ state.tag = "Drawing" /\ state.current_stroke_key = 2
    /\ Len(store[2].path.segments) = 2
    /\ event.kind = "Move"

-----------------------------------------------------------------------------
(* C13 *)

\* the stroke has one hitbox per segment of its path, each the box around the
\* segment grown by half the width, and its bounds are the box around the
\* whole path grown by half the width
GeometryConsistent(s) ==
    /\ Len(s.hitboxes) = Len(s.path.segments)
    /\ \A i \in DOMAIN s.path.segments :
           TightBox(s.hitboxes[i],
                    {IF i = 1 THEN s.path.start ELSE s.path.segments[i - 1].end,
                     s.path.segments[i].end},
                    s.width)
    /\ TightBox(Bounds(s),
                {s.path.start} \cup {s.path.segments[i].end : i \in DOMAIN s.path.segments},
                s.width)

\* C13: whenever the pen is Idle, every stroke in the store has hitboxes and
\* bounds that agree with its path as it is now; a stroke whose hitboxes lag
\* behind its path is the stroke of a Drawing session.
C13_IdleGeometryConsistent ==
    \A key \in DOMAIN store :
        ~GeometryConsistent(store[key])
            => state.tag = "Drawing" /\ state.current_stroke_key = key

\* the pen is Idle after a stroke of two different segments was finished
C13_Witness ==
    /\ state = Idle
    /\ builder_result.kind = "Finished"
    /\ Len(store[Len(store)].path.segments) = 2
    /\ Len(store[Len(store)].hitboxes) = 2
    /\ store[Len(store)].hitboxes[1] # store[Len(store)].hitboxes[2]

-----------------------------------------------------------------------------
(* C14 *)

\* the last step called the given method of the stroke
Called(op) == trace # <<>> /\ trace[1].op = op

\* C14: for every n and every path, the sub-path gen_image_for_last_segments(n)
\* builds has min(n, length of the path) segments, and they are the last
\* segments of the path, in the order they have in the path.
C14_LastSegmentsTaken ==
    Called("gen_image_for_last_segments") =>
        LET n == trace[1].n
            segs == store[1].path.segments
            len == Len(segs)
            k == IF n <= len THEN n ELSE len
            sub == render[1].range_path.segments
        IN  /\ Len(sub) = k
            /\ \A i \in 1..k : sub[i] = segs[len - k + i]

\* more segments were asked for than the path has, and the path's two
\* segments differ
C14_Witness ==
    /\ Called("gen_image_for_last_segments")
    /\ Len(store[1].path.segments) = 2
    /\ trace[1].n > 2
    /\ store[1].path.segments[1] # store[1].path.segments[2]
    /\ render[1].range_path.segments = store[1].path.segments

-----------------------------------------------------------------------------
(* C15 *)

\* C15: the sub-path gen_image_for_last_segments(n) builds starts at the
\* point right before the last n segments: at the end of the segment before
\* them when n is less than the length of the path, and at the path's start
\* when n is the length of the path or more.
C15_SubPathStart ==
    Called("gen_image_for_last_segments") =>
        LET n == trace[1].n
            path == store[1].path
            len == Len(path.segments)
        IN  render[1].range_path.start =
                IF n < len THEN path.segments[len - n].end ELSE path.start

-----------------------------------------------------------------------------
(* C16 *)

\* C16: update_geometry called right after update_geometry, nothing having
\* changed the path or the width in between, leaves the hitboxes and the
\* bounds as the first call left them.
C16_UpdateGeometryIdempotent ==
    [][(Called("update_geometry") /\ trace'[1].op = "update_geometry")
        => /\ store'[1].hitboxes = store[1].hitboxes
           /\ Bounds(store'[1]) = Bounds(store[1])
           /\ GeometryConsistent(store'[1])]_vars

\* update_geometry was called twice in a row on a stroke of two segments
C16_Witness ==
    /\ Called("update_geometry")
    /\ trace[1].prev = "update_geometry"
    /\ Len(store[1].path.segments) = 2
    /\ Len(store[1].hitboxes) = 2

-----------------------------------------------------------------------------
(* C17 *)

\* box a lies within box b
Within(a, b) ==
    /\ b.mins[1] <= a.mins[1] /\ a.maxs[1] <= b.maxs[1]
    /\ b.mins[2] <= a.mins[2] /\ a.maxs[2] <= b.maxs[2]

\* the boxes have no point in common
Disjoint(a, b) ==
    \/ a.maxs[1] < b.mins[1] \/ b.maxs[1] < a.mins[1]
    \/ a.maxs[2] < b.mins[2] \/ b.maxs[2] < a.mins[2]

\* box c is the part the boxes a and b have in common
CommonPart(c, a, b) ==
    \A x \in {a.mins[1], a.maxs[1], b.mins[1], b.maxs[1]},
       y \in {a.mins[2], a.maxs[2], b.mins[2], b.maxs[2]} :
        (ContainsPoint(a, <<x, y>>) /\ ContainsPoint(b, <<x, y>>))
            <=> (ContainsPoint(c, <<x, y>>)
                    /\ x \in {c.mins[1], c.maxs[1]} /\ y \in {c.mins[2], c.maxs[2]})

\* C17: gen_images returns Full exactly when the bounds of the stroke lie
\* within the viewport, and otherwise Partial with the viewport it was given;
\* the image it made covers the part of the bounds inside the viewport; when
\* bounds and viewport have nothing in common it returns Partial with no
\* image, not an error.
C17_GenImagesClassifies ==
    Called("gen_images") =>
        LET viewport == trace[1].viewport
            bounds == Bounds(store[1])
            r == render[1].returned
        IN  /\ r.kind \in {"Full", "Partial"}
            /\ r.kind = "Full" <=> Within(bounds, viewport)
            /\ r.kind = "Partial" => r.viewport = viewport
            /\ Len(r.images) = (IF trace[1].ok /\ ~Disjoint(bounds, viewport) THEN 1 ELSE 0)
            /\ \A i \in DOMAIN r.images :
                   /\ Within(r.images[i].rect, bounds)
                   /\ Within(r.images[i].rect, viewport)
                   /\ CommonPart(r.images[i].rect, bounds, viewport)
            /\ Disjoint(bounds, viewport) => r.kind = "Partial" /\ r.images = <<>>

\* a stroke running out of the viewport got a Partial with an image clipped
\* to the viewport
C17_Witness ==
    /\ Called("gen_images")
    /\ render[1].returned.kind = "Partial"
    /\ Len(render[1].returned.images) = 1
    /\ render[1].returned.images[1].rect # Bounds(store[1])
    /\ render[1].returned.images[1].rect.maxs = trace[1].viewport.maxs

-----------------------------------------------------------------------------
(* C18 *)

\* the step calls the given method and the rasterization fails in it
Fails(op) == trace'[1].op = op /\ ~trace'[1].ok

\* C18 as stated: a rasterization that fails makes neither gen_images nor
\* gen_image_for_last_segments return an error; both return a result without
\* an image, and the path of the stroke and the state of the pen stay as they are.
C18_NoRenderError ==
    [][/\ Fails("gen_images") =>
              /\ render'[1].returned.kind \in {"Full", "Partial"}
              /\ render'[1].returned.images = <<>>
       /\ Fails("gen_image_for_last_segments") => render'[1].returned.ok
       /\ (Fails("gen_images") \/ Fails("gen_image_for_last_segments")) =>
              UNCHANGED <<store, state>>]_vars

\* C18, amended: a rasterization that fails in gen_images does not make it
\* return an error: it returns Full or Partial, as the viewport decides, with
\* no image.  A rasterization that fails in gen_image_for_last_segments makes
\* it return the error to its caller.  Either way the path of the stroke and
\* the state of the pen stay as they are.
C18_RenderErrors ==
    [][/\ Fails("gen_images") =>
              /\ render'[1].returned.kind \in {"Full", "Partial"}
              /\ render'[1].returned.kind = "Full"
                     <=> Within(Bounds(store[1]), trace'[1].viewport)
              /\ render'[1].returned.images = <<>>
       /\ Fails("gen_image_for_last_segments") => ~render'[1].returned.ok
       /\ (Fails("gen_images") \/ Fails("gen_image_for_last_segments")) =>
              UNCHANGED <<store, state>>]_vars

\* the rasterization failed for a stroke that lies within the viewport
C18_Witness ==
    /\ Called("gen_images")
    /\ ~trace[1].ok
    /\ render[1].returned = [kind |-> "Full", images |-> <<>>]
    /\ Len(store[1].path.segments) = 2

-----------------------------------------------------------------------------
(* C19 *)

\* C19: the colour of a new stroke is the configured colour with its alpha
\* multiplied by the strength and its other channels as configured; starting
\* the stroke leaves the configuration as it is, and the colour of a stroke
\* in the store never changes afterwards, whatever the configuration becomes.
C19_EffectiveColorCaptured ==
    [][/\ (Handles("Idle") /\ event_result'.handled) =>
              LET color == store'[Len(store')].color
              IN  /\ Len(store') = Len(store) + 1
                  /\ color.r = config.color.r
                  /\ color.g = config.color.g
                  /\ color.b = config.color.b
                  /\ 100 * color.a = config.color.a * config.strength
                  /\ config' = config
       /\ \A key \in DOMAIN store : store'[key].color = store[key].color]_vars

\* the strength was raised while a stroke was drawn, and the stroke has kept
\* the alpha it started with
C19_Witness ==
    /\ state.tag = "Drawing"
    /\ config.strength = 100
    /\ store[state.current_stroke_key].color = [r |-> 100, g |-> 90, b |-> 0, a |-> 50]
    /\ Len(store[state.current_stroke_key].path.segments) = 1

-----------------------------------------------------------------------------
(* C20 *)

\* the step is the Down of scenario A: width 15, Circular, colour
\* (1, 0.9, 0, 1), strength 0.5, a Down at (10, 10) that is accepted
ScenarioA ==
    /\ Handles("Idle") /\ event'.kind = "Down" /\ event'.element = Pt(10, 10)
    /\ event_result'.handled
    /\ config = [strength |-> 50, width |-> Fx(15), shape |-> "Circular",
                 color |-> [r |-> 100, g |-> 90, b |-> 0, a |-> 100]]

\* C20 as stated: the stroke scenario A creates has the alpha 0.45 and the
\* bounds of the point (10, 10) grown by 7.5 on every side.
C20_ScenarioA ==
    [][ScenarioA
        => LET s == store'[Len(store')]
           IN  /\ s.color.a = 45
               /\ Bounds(s) = [mins |-> <<25, 25>>, maxs |-> <<175, 175>>]]_vars

\* C20, amended: the stroke scenario A creates has the alpha 0.5, which is
\* 1 * 0.5, its other channels as configured, and the bounds of the point
\* (10, 10) grown by 7.5 on every side.
C20_ScenarioAHalfAlpha ==
    [][ScenarioA
        => LET s == store'[Len(store')]
           IN  /\ Len(store') = Len(store) + 1
               /\ s.color = [r |-> 100, g |-> 90, b |-> 0, a |-> 50]
               /\ s.path = [start |-> <<100, 100>>, segments |-> <<>>]
               /\ Bounds(s) = [mins |-> <<25, 25>>, maxs |-> <<175, 175>>]]_vars

\* scenario A has just happened on an empty store
C20_Witness ==
    /\ event = [kind |-> "Down", element |-> Pt(10, 10), from |-> "Idle"]
    /\ event_result.handled
    /\ config = MarkerConfigDefault
    /\ Len(store) = 1
    /\ store[1].width = 150
    /\ state.tag = "Drawing"

-----------------------------------------------------------------------------
(* C21 *)

\* C21: every handle_event call that appends segments to the stroke or
\* finalizes it returns widget flags with store_modified set; a call that
\* finalizes returns, besides, the flags the document's auto-expand and the
\* recording of the checkpoint returned (resize and refresh_ui).
C21_FlagsOnMutation ==
    [][Handles("Drawing")
        => LET key == state.current_stroke_key
           IN  /\ (store'[key].path.segments # store[key].path.segments \/ Finalizes)
                      => widget_flags'.store_modified
               /\ Finalizes
                      => /\ CallsOf(trace', "resize_autoexpand") # {}
                         /\ CallsOf(trace', "record") # {}
                         /\ widget_flags'.resize
                         /\ widget_flags'.refresh_ui]_vars

\* a Cancel finalized a stroke that had got a segment, and the call returned
\* all three flags
C21_Witness ==
    /\ event.kind = "Cancel" /\ event.from = "Drawing"
    /\ state = Idle
    /\ Len(store[Len(store)].path.segments) = 1
    /\ widget_flags = [store_modified |-> TRUE, resize |-> TRUE, refresh_ui |-> TRUE]

-----------------------------------------------------------------------------
(* C22 *)

\* C22: while a stroke is drawn, every step leaves its segments as they were
\* with nothing or something put after them: no segment is removed, moved or
\* rewritten; and its start, width, shape and colour stay as they are,
\* whatever the configuration becomes.
C22_PathAppendOnly ==
    [][state.tag = "Drawing"
        => LET key == state.current_stroke_key
               before == store[key]
               after == store'[key]
           IN  /\ Len(after.path.segments) >= Len(before.path.segments)
               /\ SubSeq(after.path.segments, 1, Len(before.path.segments))
                      = before.path.segments
               /\ after.path.start = before.path.start
               /\ <<after.width, after.shape, after.color>>
                      = <<before.width, before.shape, before.color>>]_vars

\* the stroke being drawn got its two different segments one after the other,
\* and the width was changed on the configuration page meanwhile
C22_Witness ==
    /\ state.tag = "Drawing"
    /\ Len(store[state.current_stroke_key].path.segments) = 2
    /\ store[state.current_stroke_key].path.segments[1]
           # store[state.current_stroke_key].path.segments[2]
    /\ Len(builder_result.segments) = 1
    /\ config.width # store[state.current_stroke_key].width

-----------------------------------------------------------------------------
(* C23 *)

\* the event of the step carries a position outside the document's bounds
\* loosened by 30 units
OutsideMargin == event'.kind # "Cancel" /\ ~WithinMargin(event'.element, document)

\* C23: the test against the bounds is made only for the Down that starts a
\* stroke.  While Drawing, an event outside the document's bounds and their
\* margin goes to the builder like any other, the call is handled, and the
\* segments the builder emits are appended to the stroke; and when a stroke is
\* finalized the document's auto-expand is requested, once.
C23_BoundsTestedAtStartOnly ==
    [][Handles("Drawing")
        => LET key == state.current_stroke_key
           IN  /\ OutsideMargin =>
                      /\ builder_result' \in
                             {br.progress :
                                 br \in BuilderHandleEvent(
                                            state.path_builder,
                                            [kind |-> event'.kind,
                                             element |-> event'.element])}
                      /\ event_result'.handled
                      /\ store'[key].path.segments =
                             store[key].path.segments \o builder_result'.segments
               /\ Finalizes =>
                      /\ Cardinality(CallsOf(trace', "resize_autoexpand")) = 1
                      /\ autoexpands' = autoexpands + 1
                      /\ widget_flags'.resize]_vars

\* scenario B: a Down at (10, 10), a Move to (1000, 1000) whose segment was
\* appended, and the stroke finalized: the document has grown around it
C23_Witness ==
    /\ Len(store) = 1
    /\ store[1].path = [start |-> Pt(10, 10), segments |-> <<LineTo(Pt(1000, 1000))>>]
    /\ state = Idle
    /\ event.kind = "Cancel"
    /\ autoexpands = 1
    /\ document = [mins |-> <<0, 0>>, maxs |-> <<Fx(1000) + 75, Fx(1000) + 75>>]

-----------------------------------------------------------------------------
(* C24 *)

\* C24: in every reachable state the pen has inserted as many strokes as it
\* has recorded checkpoints when it is Idle, and one more when it is Drawing,
\* and the stroke it is drawing is the one inserted last: insertions and
\* checkpoints take turns, an insertion first, and a finalize is about the
\* stroke inserted last.
C24_InsertionsAndCheckpoints ==
    /\ Len(store) - history = (IF state.tag = "Idle" THEN 0 ELSE 1)
    /\ state.tag = "Drawing" => state.current_stroke_key = Len(store)

\* a second stroke is being drawn after the first one was finalized
C24_Witness ==
    /\ Len(store) = 2
    /\ history = 1
    /\ state.tag = "Drawing"
    /\ state.current_stroke_key = 2
    /\ event.kind = "Down" /\ event.from = "Idle"

====
